---- MODULE Spec2Model ----
(***************************************************************************)
(* A model of the avanza-api client.                                       *)
(*                                                                         *)
(*   - AvanzaRealTime (avanza-realtime service): the CometD-style          *)
(*     handshake / connect / subscribe multiplexer over one WebSocket.     *)
(*   - Avanza (avanza.service): credentials, the two-step login and the    *)
(*     renewal timer.                                                      *)
(*                                                                         *)
(* Every RxJS subject of the source is one variable holding its latest     *)
(* value; every subscription made in a constructor is part of the action   *)
(* of the event that makes the subject emit, in subscription order.        *)
(***************************************************************************)
EXTENDS Integers, Sequences, FiniteSets, TLC

VARIABLES
    \* ---- AvanzaRealTime ----
    socket,              \* readyState of socket$: "connecting", "open", "closed"
    authSession,         \* latest value of authSession$ (NoValue before the first)
    addSubscription,     \* latest value of addSubscription$
    subscriptions,       \* accumulator of subscriptions$ (scan)
    socketMessageCount,  \* socketMessageCount$
    socketClientId,      \* socketClientId$
    isSocketAuth,        \* isSocketAuth$
    written,             \* frames handed to socket$.send, in call order
    messages,            \* values pushed into messages$
    received,            \* frames of the inbound payloads, in arrival order
    rtEvents,            \* how many events have happened
    last,                \* the last event and what it wrote
    \* ---- Avanza ----
    cfgTimeout,          \* _authenticationTimeout, the constructor argument
    onSetCredentials,    \* buffer of the ReplaySubject onSetCredentials$
    credentialsSub,      \* the constructor's subscription to credentials$ is alive
    unhandled,           \* errors that reached a subscriber with no error handler
    calls,               \* the pipeline of every authenticate() invocation
    svcAuthSession,      \* latest value of Avanza.authSession$
    renewals,            \* due times of the values held by delay() of the renewal
    requests,            \* HTTP requests issued, in order
    now,                 \* the clock, in milliseconds
    svcEvents,           \* how many calls, responses and clock steps have happened
    svcLimit,            \* how many of them one behaviour may have
    svcLast              \* the last call of the service and what it did

rtVars == <<socket, authSession, addSubscription, subscriptions,
            socketMessageCount, socketClientId, isSocketAuth, written,
            messages, received, rtEvents, last>>

svcVars == <<cfgTimeout, onSetCredentials, credentialsSub, unhandled, calls,
             svcAuthSession, renewals, requests, now, svcEvents, svcLimit, svcLast>>

vars == <<rtVars, svcVars>>

(***************************************************************************)
(* Bounds of the model.                                                    *)
(***************************************************************************)
MaxEvents == 4      \* events of the realtime service in one behaviour
MaxCalls == 2       \* authenticate() invocations
MaxSvcEvents == 4   \* calls, HTTP responses and clock steps in one behaviour
MaxRetryEvents == 13 \* the same, in the behaviours of one authenticate() call
MaxCredEvents == 5  \* the same, in the behaviours of setCredentials and one call
MaxMonoEvents == 5  \* HTTP responses in one behaviour of the single-pipeline variant
TimeStep == 30000   \* length of a clock step that ends at no timer, in milliseconds

(***************************************************************************)
(* Values.                                                                 *)
(***************************************************************************)
Null == "null"            \* JavaScript null / undefined
NoValue == "novalue"      \* a ReplaySubject that has not emitted yet

SessionValues == {Null, "p1"}        \* pushSubscriptionId of a SessionAuth, or null
ChannelValues == {"orders", "quotes"}
IdLists == {<<>>, <<"5">>, <<"5", "6">>}

\* [Channels.ORDERS, Channels.DEALS, Channels.POSITIONS]
AccountChannels == {"orders", "deals", "positions"}

Range(f) == {f[i] : i \in DOMAIN f}

NullSub == [channel |-> Null, ids |-> <<>>]
SubscriptionRequests ==
    {[channel |-> c, ids |-> i] : c \in ChannelValues, i \in IdLists}

HandshakeResponse(successful, clientId) ==
    [channel |-> "/meta/handshake", successful |-> successful, clientId |-> clientId,
     data |-> Null]
ConnectResponse(successful) ==
    [channel |-> "/meta/connect", successful |-> successful, clientId |-> Null,
     data |-> Null]
DataMessage(data) ==
    [channel |-> "/quotes/5", successful |-> FALSE, clientId |-> Null, data |-> data]

InboundFrames ==
    {HandshakeResponse(TRUE, "C1"), HandshakeResponse(TRUE, "C2"),
     HandshakeResponse(FALSE, Null), ConnectResponse(TRUE), ConnectResponse(FALSE),
     DataMessage("d1"), DataMessage("d2")}

\* inbound payloads: every single frame, and pairs of frames
InboundBatches ==
    {<<f>> : f \in InboundFrames}
    \cup {<<f, g>> : f \in {HandshakeResponse(TRUE, "C1"), ConnectResponse(TRUE),
                            DataMessage("d1")},
                     g \in {HandshakeResponse(TRUE, "C2"), ConnectResponse(TRUE),
                            DataMessage("d2")}}

(***************************************************************************)
(* Outbound frames.                                                        *)
(***************************************************************************)
Frame(ch, id, cid, sub, ext, adv) ==
    [channel |-> ch, id |-> id, clientId |-> cid, subscription |-> sub,
     ext |-> ext, advice |-> adv]

HandshakeFrame(count, pushSubscriptionId) ==
    Frame("/meta/handshake", count, Null, Null, pushSubscriptionId, "60000/0")

ConnectFrame(count, clientId, adv) ==
    Frame("/meta/connect", count, clientId, Null, Null, adv)

\* Array.prototype.join
RECURSIVE Join(_, _)
Join(ids, sep) ==
    IF Len(ids) = 0 THEN ""
    ELSE IF Len(ids) = 1 THEN ids[1]
    ELSE ids[1] \o sep \o Join(Tail(ids), sep)

\* mutant: the account-scoped channels are not recognised
IsAccountChannel_Never(channel) == FALSE

IsAccountChannel(channel) == channel \in AccountChannels

\* mutant: the ids are joined with no separator
AccountPath_NoComma(sub) == "/" \o sub.channel \o Join(sub.ids, "")

AccountPath(sub) == "/" \o sub.channel \o Join(sub.ids, ",")

ItemPath(sub, id) == "/" \o sub.channel \o "/" \o id

SubscribeFrames(sub, count, clientId) ==
    IF IsAccountChannel(sub.channel)
    THEN <<Frame("/meta/subscribe", count, clientId, AccountPath(sub), Null, Null)>>
    ELSE [i \in 1..Len(sub.ids) |->
            Frame("/meta/subscribe", count, clientId, ItemPath(sub, sub.ids[i]), Null, Null)]

(***************************************************************************)
(* The part of the state the handlers thread through one event.            *)
(***************************************************************************)
Cur == [count |-> socketMessageCount, clientId |-> socketClientId,
        isAuth |-> isSocketAuth, written |-> written, messages |-> messages]

\* onSocketSend$.next(frame): the counter subscriber runs first, then socket$.send
Send(s, frame) ==
    [s EXCEPT !.count = @ + 1, !.written = Append(@, frame)]

RECURSIVE SendAll(_, _)
SendAll(s, frames) ==
    IF frames = <<>> THEN s ELSE SendAll(Send(s, Head(frames)), Tail(frames))

ReplayFilter(sub, isAuth) == sub # NullSub /\ isAuth

\* mutant: every request of the ledger is sent, then the latest one
RECURSIVE LedgerFrames(_, _, _)
LedgerFrames(ledger, count, clientId) ==
    IF ledger = <<>> THEN <<>>
    ELSE (IF Head(ledger) = NullSub THEN <<>>
          ELSE SubscribeFrames(Head(ledger), count, clientId))
         \o LedgerFrames(Tail(ledger), count, clientId)

Replay_Ledger(s, sub, isAuth) ==
    IF ReplayFilter(sub, isAuth)
    THEN SendAll(s, LedgerFrames(subscriptions, s.count, s.clientId)
                    \o SubscribeFrames(sub, s.count, s.clientId))
    ELSE s
\* combineLatest(addSubscription$, isSocketAuth$ distinct) emitted [sub, isAuth]
Replay(s, sub, isAuth) ==
    IF ReplayFilter(sub, isAuth)
    THEN SendAll(s, SubscribeFrames(sub, s.count, s.clientId))
    ELSE s

\* mutant: no distinctUntilChanged
MarkAuth_Always(s, sub) == Replay([s EXCEPT !.isAuth = TRUE], sub, TRUE)

\* isSocketAuth$.next(true), seen through distinctUntilChanged
MarkAuth(s, sub) ==
    IF s.isAuth THEN s ELSE Replay([s EXCEPT !.isAuth = TRUE], sub, TRUE)

\* mutant: the successful flag of the handshake response is not read
HandshakeAccepted_Always(m) == TRUE

HandshakeAccepted(m) == m.successful

Forward_WhenAuth(s, m) ==
    IF s.isAuth THEN [s EXCEPT !.messages = Append(@, m)] ELSE s
\* default: this.messages$.next(message)
Forward(s, m) == [s EXCEPT !.messages = Append(@, m)]

\* one iteration of the for loop over an inbound payload; count0 and clientId0
\* are the values withLatestFrom captured when the payload arrived
HandleMessage(s, m, count0, clientId0, sub) ==
    CASE m.channel = "/meta/handshake" ->
            IF HandshakeAccepted(m)
            THEN Send([s EXCEPT !.clientId = m.clientId],
                      ConnectFrame(count0, m.clientId, "0"))
            ELSE s
      [] m.channel = "/meta/connect" ->
            Send(MarkAuth(s, sub), ConnectFrame(count0, clientId0, Null))
      [] OTHER -> Forward(s, m)

\* the for loop; the result lists, per inbound frame, the state after it
RECURSIVE Dispatch(_, _, _, _, _)
Dispatch(s, batch, count0, clientId0, sub) ==
    IF batch = <<>> THEN <<>>
    ELSE LET s1 == HandleMessage(s, Head(batch), count0, clientId0, sub)
         IN  <<s1>> \o Dispatch(s1, Tail(batch), count0, clientId0, sub)

\* onSocketAuth$.next(): the handshake frame
Handshake(s, session) ==
    IF session # Null /\ session # NoValue
    THEN Send(s, HandshakeFrame(s.count, session))
    ELSE s

\* combineLatest(isSocketOpen$, authSession$): it emits once both inputs have
\* emitted, and the filter lets an open socket with a session through
SocketAuthTrigger(s, sock, session) ==
    IF sock # "connecting" /\ session # NoValue /\ sock = "open" /\ session # Null
    THEN Handshake(s, session)
    ELSE s

Written(s) == SubSeq(s.written, Len(written) + 1, Len(s.written))

Commit(s) ==
    /\ socketMessageCount' = s.count
    /\ socketClientId' = s.clientId
    /\ isSocketAuth' = s.isAuth
    /\ written' = s.written
    /\ messages' = s.messages

\* how many of the frames are handshake frames
Handshakes(out) == Cardinality({i \in DOMAIN out : out[i].channel = "/meta/handshake"})

Note(op, s, sub, log) ==
    last' = [op |-> op, out |-> Written(s), wasAuth |-> isSocketAuth,
             clientId0 |-> socketClientId, sub |-> sub, log |-> log,
             sinceOpen |-> IF op = "open" THEN Handshakes(Written(s))
                           ELSE last.sinceOpen + Handshakes(Written(s))]

Budget == rtEvents < MaxEvents
Spend == rtEvents' = rtEvents + 1

(***************************************************************************)
(* Events of AvanzaRealTime.                                               *)
(***************************************************************************)
OnSocketOpen ==
    /\ socket # "open"
    /\ Budget
    /\ socket' = "open"
    /\ LET s == SocketAuthTrigger(Cur, "open", authSession)
       IN  Commit(s) /\ Note("open", s, NullSub, <<>>)
    /\ Spend
    /\ UNCHANGED <<authSession, addSubscription, subscriptions, received, svcVars>>

OnSocketClose ==
    /\ socket # "closed"
    /\ Budget
    /\ socket' = "closed"
    /\ LET s == SocketAuthTrigger(Cur, "closed", authSession)
       IN  Commit(s) /\ Note("close", s, NullSub, <<>>)
    /\ Spend
    /\ UNCHANGED <<authSession, addSubscription, subscriptions, received, svcVars>>

SetAuthSession(session) ==
    /\ Budget
    /\ authSession' = session
    /\ LET s == SocketAuthTrigger(Cur, socket, session)
       IN  Commit(s) /\ Note("session", s, NullSub, <<>>)
    /\ Spend
    /\ UNCHANGED <<socket, addSubscription, subscriptions, received, svcVars>>

AddSubscription(sub) ==
    /\ Budget
    /\ addSubscription' = sub
    /\ subscriptions' = Append(subscriptions, sub)
    /\ LET s == Replay(Cur, sub, isSocketAuth)
       IN  Commit(s) /\ Note("add", s, sub, <<>>)
    /\ Spend
    /\ UNCHANGED <<socket, authSession, received, svcVars>>

OnSocketMessage(batch) ==
    /\ socket = "open"
    /\ Budget
    /\ LET log == Dispatch(Cur, batch, socketMessageCount, socketClientId,
                           addSubscription)
           s == log[Len(log)]
       IN  /\ Commit(s)
           /\ Note("message", s, addSubscription,
                   [i \in 1..Len(log) |->
                      [msg |-> batch[i],
                       out |-> SubSeq(log[i].written,
                                      IF i = 1 THEN Len(written) + 1
                                      ELSE Len(log[i - 1].written) + 1,
                                      Len(log[i].written)),
                       clientId |-> log[i].clientId]])
    /\ received' = received \o batch
    /\ Spend
    /\ UNCHANGED <<socket, authSession, addSubscription, subscriptions, svcVars>>

\* the fields of a new instance; `session` is what authSession$ holds at first
RtConstructed(session) ==
    /\ socket = "connecting"
    /\ authSession = session
    /\ addSubscription = NullSub
    /\ subscriptions = <<NullSub>>
    /\ socketMessageCount = 1
    /\ socketClientId = Null
    /\ isSocketAuth = FALSE
    /\ written = <<>>
    /\ messages = <<>>
    /\ received = <<>>
    /\ rtEvents = 0
    /\ last = [op |-> "init", out |-> <<>>, wasAuth |-> FALSE, clientId0 |-> Null,
               sub |-> NullSub, log |-> <<>>, sinceOpen |-> 0]

\* new AvanzaRealTime(): authSession$ is a ReplaySubject that has not emitted
RtFresh == RtConstructed(NoValue)

RtNext ==
    \/ OnSocketOpen
    \/ OnSocketClose
    \/ \E session \in SessionValues : SetAuthSession(session)
    \/ \E sub \in SubscriptionRequests : AddSubscription(sub)
    \/ \E batch \in InboundBatches : OnSocketMessage(batch)

(***************************************************************************)
(* Avanza (avanza.service): values.                                        *)
(***************************************************************************)
MIN_INACTIVE_MINUTES == 30
MAX_INACTIVE_MINUTES == 60 * 24

\* authenticate(): genericRetryStrategy({ maxRetryAttempts: 10, scalingDuration: 10000 })
MaxRetryAttempts == 10
ScalingDuration == 10000
ExcludedStatusCodes_Only400 == {400}
\* the default excludedStatusCodes of genericRetryStrategy
ExcludedStatusCodes == {401, 400}

TimeoutValues == {29, MIN_INACTIVE_MINUTES, MAX_INACTIVE_MINUTES, MAX_INACTIVE_MINUTES + 1}
StatusValues == {200, 401, 500}
AuthSessionValues == {Null, "a1"}
CredentialValues ==
    {[username |-> u, password |-> w, totpSecret |-> "s1"] :
        u \in {"", "u"}, w \in {"", "p"}}

NoCreds == [username |-> NoValue, password |-> NoValue, totpSecret |-> NoValue]
NoCode == [secret |-> NoValue, window |-> -1]
NoResult == [kind |-> "none", payload |-> Null]

\* error.statusCode of a value that has no statusCode (a thrown string)
NoStatusCode == -1

\* totp(secret): the code of the 30-second window the clock is in
Totp(secret, time) == [secret |-> secret, window |-> time \div (30 * 1000)]

\* the value checkCredentials throws, or "ok"
CheckCredentials(credentials, authenticationTimeout) ==
    IF credentials.username = "" THEN "Missing credentials.username."
    ELSE IF credentials.password = "" THEN "Missing credentials.password."
    ELSE IF ~(authenticationTimeout >= MIN_INACTIVE_MINUTES
              /\ authenticationTimeout <= MAX_INACTIVE_MINUTES)
         THEN "Session timeout not in range " \o ToString(MIN_INACTIVE_MINUTES)
              \o " - " \o ToString(MAX_INACTIVE_MINUTES) \o " minutes."
    ELSE "ok"

\* authenticationTimeout$: a BehaviorSubject that nothing ever feeds
AuthenticationTimeout == MAX_INACTIVE_MINUTES

\* what credentials$ = combineLatest(onSetCredentials$, authenticationTimeout$)
\* hands to checkCredentials for the value `credentials`
CredentialsCheck(credentials) == CheckCredentials(credentials, AuthenticationTimeout)

\* the delay of the renewal subscription
RenewalDelay == (cfgTimeout - 1) * 60 * 1000

IdleCall ==
    [status |-> "idle", sourceOn |-> FALSE, creds |-> NoCreds, totpCode |-> NoCode,
     login |-> 0, totp |-> 0, errors |-> 0, retryAt |-> -1, result |-> NoResult,
     doneAt |-> -1, order |-> 0, attempts |-> <<>>, failures |-> <<>>]

ErrorOfStatus(status) == [statusCode |-> status, message |-> Null]
ErrorOfThrow(message) == [statusCode |-> NoStatusCode, message |-> message]

\* the value the server gives field `name` in its answer to request number `request`
FieldOf(name, request) == name \o "/" \o ToString(request)

\* the 200 answer to second-factor request number `request`: every field is a
\* value of its own
AuthResponseOf(request) ==
    [json |-> [statusCode |-> 200,
               authenticationSession |-> FieldOf("authenticationSession", request),
               pushSubscriptionId |-> FieldOf("pushSubscriptionId", request),
               customerId |-> FieldOf("customerId", request)],
     headers |-> [securityToken |-> FieldOf("x-securitytoken", request)]]

SessionOfResponse_Crossed(response) ==
    [securityToken |-> response.headers.securityToken,
     authenticationSession |-> response.json.pushSubscriptionId,
     pushSubscriptionId |-> response.json.authenticationSession]
\* the two map steps after the second-factor request
SessionOfResponse(response) ==
    [securityToken |-> response.headers.securityToken,
     authenticationSession |-> response.json.authenticationSession,
     pushSubscriptionId |-> response.json.pushSubscriptionId]

(***************************************************************************)
(* The pipeline of authenticate().                                         *)
(***************************************************************************)
Svc == [calls |-> calls, requests |-> requests, unhandled |-> unhandled,
        credentialsSub |-> credentialsSub, renewals |-> renewals]

LoginRequest(p, credentials) ==
    [kind |-> "login", call |-> p, at |-> now, username |-> credentials.username,
     password |-> credentials.password, maxInactiveMinutes |-> cfgTimeout,
     totpCode |-> NoCode, transactionId |-> 0]

TotpRequest(p, totpCode, transactionId) ==
    [kind |-> "totp", call |-> p, at |-> now, username |-> Null, password |-> Null,
     maxInactiveMinutes |-> 0, totpCode |-> totpCode, transactionId |-> transactionId]

\* first switchMap: a new login request; the result of an earlier one is dropped
IssueLogin(s, p, credentials) ==
    LET rs == Append(s.requests, LoginRequest(p, credentials))
    IN  [s EXCEPT !.requests = rs, !.calls[p].login = Len(rs)]

IssueTotp_FirstTransaction(s, p, login) ==
    LET rs == Append(s.requests, TotpRequest(p, s.calls[p].totpCode, 1))
    IN  [s EXCEPT !.requests = rs, !.calls[p].totp = Len(rs)]
\* second switchMap: the second-factor request for the login response of request
\* `login`, with the latest value of totpCode$
IssueTotp(s, p, login) ==
    LET rs == Append(s.requests, TotpRequest(p, s.calls[p].totpCode, login))
    IN  [s EXCEPT !.requests = rs, !.calls[p].totp = Len(rs)]

RetryGivesUp_OneEarly(error, i) ==
    i + 1 >= MaxRetryAttempts \/ error.statusCode \in ExcludedStatusCodes
\* genericRetryStrategy: the error with index i is thrown on
RetryGivesUp(error, i) ==
    LET retryAttempt == i + 1
    IN  retryAttempt > MaxRetryAttempts \/ error.statusCode \in ExcludedStatusCodes

RetryDelay_Flat(i) == ScalingDuration
\* timer(retryAttempt * scalingDuration)
RetryDelay(i) == (i + 1) * ScalingDuration

\* authenticate(): the promise of the call rejects with the serialised error
Reject(s, p, error) ==
    [s EXCEPT !.calls[p].status = "rejected",
              !.calls[p].result = [kind |-> "error", payload |-> [json |-> error]],
              !.calls[p].doneAt = now]

\* retryWhen: an error of the source unsubscribes it and asks the strategy
SourceError(s, p, error) ==
    LET c == s.calls[p]
        stopped == [c EXCEPT !.sourceOn = FALSE, !.creds = NoCreds, !.order = 0,
                             !.failures = Append(@, now),
                             !.totpCode = NoCode, !.login = 0, !.totp = 0]
        s1 == [s EXCEPT !.calls[p] = stopped]
    IN  IF RetryGivesUp(error, c.errors)
        THEN Reject(s1, p, error)
        ELSE [s1 EXCEPT !.calls[p].errors = @ + 1,
                        !.calls[p].retryAt = now + RetryDelay(c.errors)]

\* observers of a subject are called in the order they subscribed
NextOrder(s) ==
    LET orders == {s.calls[q].order : q \in 1..MaxCalls}
    IN  1 + CHOOSE o \in orders : \A x \in orders : x <= o

\* authenticate$ emitted: withLatestFrom(credentials$), filter, first switchMap
SourceEmits(s, p) ==
    IF s.calls[p].creds = NoCreds THEN s ELSE IssueLogin(s, p, s.calls[p].creds)

LatestCredentials_First(buffer) == buffer[1]
\* combineLatest over the replay of onSetCredentials$: the values replayed
\* before authenticationTimeout$ is subscribed are overwritten, the last one stays
LatestCredentials(buffer) == buffer[Len(buffer)]

\* the pipeline is subscribed (at the call, and again at every retry): totpCode$
\* and credentials$ replay the latest credentials, then authenticate$ emits
Subscribe(s, p, buffer) ==
    LET on == [s EXCEPT !.calls[p].sourceOn = TRUE, !.calls[p].order = NextOrder(s),
                        !.calls[p].attempts = Append(@, now)]
    IN  IF buffer = <<>> THEN on
        ELSE LET credentials == LatestCredentials(buffer)
                 check == CredentialsCheck(credentials)
             IN  IF check # "ok" THEN SourceError(on, p, ErrorOfThrow(check))
                 ELSE SourceEmits(
                        [on EXCEPT !.calls[p].totpCode = Totp(credentials.totpSecret, now),
                                   !.calls[p].creds = credentials], p)

\* first(): the promise resolves and the pipeline is unsubscribed
Resolve(s, p, request) ==
    [s EXCEPT !.calls[p].status = "resolved",
              !.calls[p].result = [kind |-> "session", payload |-> SessionOfResponse(AuthResponseOf(request))],
              !.calls[p].doneAt = now,
              !.calls[p].sourceOn = FALSE, !.calls[p].creds = NoCreds,
              !.calls[p].order = 0,
              !.calls[p].totpCode = NoCode, !.calls[p].login = 0, !.calls[p].totp = 0]

\* onSetCredentials$.next(credentials) as seen by one subscribed pipeline
CredentialsToCall(s, p, credentials) ==
    IF ~s.calls[p].sourceOn THEN s
    ELSE LET check == CredentialsCheck(credentials)
         IN  IF check # "ok" THEN SourceError(s, p, ErrorOfThrow(check))
             ELSE [s EXCEPT !.calls[p].totpCode = Totp(credentials.totpSecret, now),
                            !.calls[p].creds = credentials]

\* ... and by the constructor's merge(this.credentials$).subscribe()
CredentialsToConstructor(s, credentials) ==
    LET check == CredentialsCheck(credentials)
    IN  IF s.credentialsSub /\ check # "ok"
        THEN [s EXCEPT !.credentialsSub = FALSE, !.unhandled = Append(@, ErrorOfThrow(check))]
        ELSE s

RECURSIVE CredentialsToCalls(_, _, _)
CredentialsToCalls(s, p, credentials) ==
    IF p > MaxCalls THEN s
    ELSE CredentialsToCalls(CredentialsToCall(s, p, credentials), p + 1, credentials)

\* authenticate$.next(): every subscribed pipeline sees the emission
RECURSIVE AuthenticateNext(_, _)
AuthenticateNext(s, done) ==
    LET todo == {p \in 1..MaxCalls : s.calls[p].sourceOn /\ p \notin done}
    IN  IF todo = {} THEN s
        ELSE LET p == CHOOSE x \in todo :
                        \A q \in todo : s.calls[x].order <= s.calls[q].order
             IN  AuthenticateNext(SourceEmits(s, p), done \cup {p})

\* the renewal subscription: filter(value => !!value), delay(RenewalDelay)
ScheduleRenewal(s, value) ==
    IF value = Null THEN s
    ELSE [s EXCEPT !.renewals = Append(@, now + RenewalDelay)]

\* setCredentials never throws: checkCredentials runs inside tap, which hands what
\* it throws to the error channel of the stream
SetCredentialsThrows(credentials) == FALSE

\* a login sequence of call p has started and has not completed
InFlight(c) == c.status = "active" /\ (c.login # 0 \/ c.totp # 0 \/ c.retryAt >= 0)

SvcBudget == svcEvents < svcLimit

SvcCommit(s) ==
    /\ calls' = s.calls
    /\ requests' = s.requests
    /\ unhandled' = s.unhandled
    /\ credentialsSub' = s.credentialsSub
    /\ renewals' = s.renewals

SvcNote(op, s, credentials, threw, call, status) ==
    svcLast' = [op |-> op, credentials |-> credentials, threw |-> threw,
                call |-> call, status |-> status,
                busy |-> \E q \in 1..MaxCalls : InFlight(calls[q]),
                issued |-> SubSeq(s.requests, Len(requests) + 1, Len(s.requests)),
                reported |-> SubSeq(s.unhandled, Len(unhandled) + 1, Len(s.unhandled)),
                resolved |-> {q \in 1..MaxCalls : /\ s.calls[q].status = "resolved"
                                                  /\ calls[q].status # "resolved"},
                renewalsAfter |-> s.renewals]

(***************************************************************************)
(* Calls and events of Avanza.                                             *)
(***************************************************************************)
SetCredentials(credentials) ==
    /\ SvcBudget
    /\ onSetCredentials' = Append(onSetCredentials, credentials)
    /\ LET s == CredentialsToCalls(CredentialsToConstructor(Svc, credentials), 1,
                                   credentials)
       IN  SvcCommit(s) /\ SvcNote("setCredentials", s, credentials,
                                   SetCredentialsThrows(credentials), 0, NoStatusCode)
    /\ svcEvents' = svcEvents + 1
    /\ UNCHANGED <<cfgTimeout, svcLimit, svcAuthSession, now, rtVars>>

Authenticate ==
    /\ SvcBudget
    /\ \E p \in 1..MaxCalls :
        /\ calls[p].status = "idle"
        /\ \A q \in 1..(p - 1) : calls[q].status # "idle"
        /\ LET s == Subscribe([Svc EXCEPT !.calls[p].status = "active"], p,
                              onSetCredentials)
           IN  SvcCommit(s) /\ SvcNote("authenticate", s, NoCreds, FALSE, p, NoStatusCode)
    /\ svcEvents' = svcEvents + 1
    /\ UNCHANGED <<cfgTimeout, svcLimit, onSetCredentials, svcAuthSession, now, rtVars>>

LoginResponse(p, status) ==
    /\ calls[p].login # 0
    /\ SvcBudget
    /\ LET s0 == [Svc EXCEPT !.calls[p].login = 0]
           s == IF status # 200 THEN SourceError(s0, p, ErrorOfStatus(status))
                ELSE IssueTotp(s0, p, calls[p].login)
       IN  SvcCommit(s) /\ SvcNote("loginResponse", s, NoCreds, FALSE, p, status)
    /\ svcEvents' = svcEvents + 1
    /\ UNCHANGED <<cfgTimeout, svcLimit, onSetCredentials, svcAuthSession, now, rtVars>>

TotpResponse(p, status) ==
    /\ calls[p].totp # 0
    /\ SvcBudget
    /\ LET s0 == [Svc EXCEPT !.calls[p].totp = 0]
           s == IF status # 200 THEN SourceError(s0, p, ErrorOfStatus(status))
                ELSE Resolve(s0, p, calls[p].totp)
       IN  SvcCommit(s) /\ SvcNote("totpResponse", s, NoCreds, FALSE, p, status)
    /\ svcEvents' = svcEvents + 1
    /\ UNCHANGED <<cfgTimeout, svcLimit, onSetCredentials, svcAuthSession, now, rtVars>>

\* timer(retryAttempt * scalingDuration) fired: retryWhen subscribes the source again
RetryTimer(p) ==
    /\ calls[p].retryAt = now
    /\ LET s == Subscribe([Svc EXCEPT !.calls[p].retryAt = -1], p, onSetCredentials)
       IN  SvcCommit(s) /\ SvcNote("retryTimer", s, NoCreds, FALSE, p, NoStatusCode)
    /\ UNCHANGED <<cfgTimeout, svcLimit, onSetCredentials, svcAuthSession, now, svcEvents, rtVars>>

\* authSession$.next(value): the subject is a public field of Avanza
AuthSessionNext(value) ==
    /\ SvcBudget
    /\ svcAuthSession' = value
    /\ LET s == ScheduleRenewal(Svc, value)
       IN  SvcCommit(s) /\ SvcNote("authSessionNext", s, NoCreds, FALSE, 0, NoStatusCode)
    /\ svcEvents' = svcEvents + 1
    /\ UNCHANGED <<cfgTimeout, svcLimit, onSetCredentials, now, rtVars>>

\* the delay of the renewal elapsed for its oldest value: tap(authenticate$.next())
RenewalTimer ==
    /\ renewals # <<>>
    /\ Head(renewals) = now
    /\ LET s == AuthenticateNext([Svc EXCEPT !.renewals = Tail(@)], {})
       IN  SvcCommit(s) /\ SvcNote("renewalTimer", s, NoCreds, FALSE, 0, NoStatusCode)
    /\ UNCHANGED <<cfgTimeout, svcLimit, onSetCredentials, svcAuthSession, now, svcEvents, rtVars>>

Deadlines == ({calls[p].retryAt : p \in 1..MaxCalls} \ {-1}) \cup Range(renewals)

\* the clock moves on, never past a timer that is due
Tick ==
    /\ SvcBudget
    /\ \A d \in Deadlines : now + TimeStep <= d
    /\ now' = now + TimeStep
    /\ svcEvents' = svcEvents + 1
    /\ svcLast' = [svcLast EXCEPT !.op = "tick", !.issued = <<>>, !.reported = <<>>,
                                  !.resolved = {}]
    /\ UNCHANGED <<cfgTimeout, svcLimit, onSetCredentials, credentialsSub, unhandled, calls,
                   svcAuthSession, renewals, requests, rtVars>>

\* the clock moves on to the next timer
TickToTimer ==
    /\ \E d \in Deadlines :
        /\ d > now
        /\ \A e \in Deadlines : d <= e
        /\ now' = d
    /\ svcLast' = [svcLast EXCEPT !.op = "tick", !.issued = <<>>, !.reported = <<>>,
                                  !.resolved = {}]
    /\ UNCHANGED <<cfgTimeout, svcLimit, onSetCredentials, credentialsSub, unhandled, calls,
                   svcAuthSession, renewals, requests, svcEvents, rtVars>>

\* new Avanza(undefined, timeout)
SvcConstructed(timeout) ==
    /\ cfgTimeout = timeout
    /\ onSetCredentials = <<>>
    /\ credentialsSub = TRUE
    /\ unhandled = <<>>
    /\ calls = [p \in 1..MaxCalls |-> IdleCall]
    /\ svcAuthSession = Null
    /\ renewals = <<>>
    /\ requests = <<>>
    /\ now = 0
    /\ svcEvents = 0
    /\ svcLast = [op |-> "new", credentials |-> NoCreds, threw |-> FALSE,
                  call |-> 0, status |-> NoStatusCode,
                  busy |-> FALSE, issued |-> <<>>, reported |-> <<>>,
                  resolved |-> {}, renewalsAfter |-> <<>>]

RtInit == RtFresh /\ SvcConstructed(MAX_INACTIVE_MINUTES) /\ svcLimit = MaxSvcEvents

SvcInit ==
    /\ RtFresh
    /\ \E timeout \in TimeoutValues : SvcConstructed(timeout)
    /\ svcLimit = MaxSvcEvents

\* new Avanza(credentials): the constructor calls setCredentials first
RetryInit ==
    /\ RtFresh
    /\ svcLimit = MaxRetryEvents
    /\ \E credentials \in CredentialValues :
        /\ onSetCredentials = <<credentials>>
        /\ LET s == CredentialsToConstructor(
                        [calls |-> [p \in 1..MaxCalls |-> IdleCall], requests |-> <<>>,
                         unhandled |-> <<>>, credentialsSub |-> TRUE,
                         renewals |-> <<>>], credentials)
           IN  /\ calls = s.calls
               /\ requests = s.requests
               /\ unhandled = s.unhandled
               /\ credentialsSub = s.credentialsSub
               /\ renewals = s.renewals
    /\ cfgTimeout = MAX_INACTIVE_MINUTES
    /\ svcAuthSession = Null
    /\ now = 0
    /\ svcEvents = 0
    /\ svcLast = [op |-> "new", credentials |-> NoCreds, threw |-> FALSE,
                  call |-> 0, status |-> NoStatusCode,
                  busy |-> FALSE, issued |-> <<>>, reported |-> <<>>,
                  resolved |-> {}, renewalsAfter |-> <<>>]

\* one caller that calls authenticate() once
AuthenticateOnce == calls[1].status = "idle" /\ Authenticate

(***************************************************************************)
(* The single-pipeline variant of Avanza: the constructor subscribes one   *)
(* pipeline, which stays subscribed after a success and feeds authSession$. *)
(* The pipeline is calls[1].  The socket belongs to the same instance, and  *)
(* authSession$ is one BehaviorSubject: svcAuthSession says that it holds a *)
(* session, authSession is the pushSubscriptionId of what it holds.         *)
(***************************************************************************)
\* the default excludedStatusCodes of this variant's genericRetryStrategy
MonoExcludedStatusCodes == {401}

MonoRetryGivesUp(error, i) ==
    LET retryAttempt == i + 1
    IN  retryAttempt > MaxRetryAttempts \/ error.statusCode \in MonoExcludedStatusCodes

\* retryWhen: the index of the error counts every error the pipeline has had; an
\* error the strategy throws reaches subscribe(), which has no error handler
MonoSourceError(s, error) ==
    LET c == s.calls[1]
        stopped == [c EXCEPT !.sourceOn = FALSE, !.creds = NoCreds, !.order = 0,
                             !.failures = Append(@, now),
                             !.totpCode = NoCode, !.login = 0, !.totp = 0]
        s1 == [s EXCEPT !.calls[1] = stopped]
    IN  IF MonoRetryGivesUp(error, c.errors)
        THEN [s1 EXCEPT !.calls[1].status = "ended",
                        !.unhandled = Append(@, [json |-> error])]
        ELSE [s1 EXCEPT !.calls[1].errors = @ + 1,
                        !.calls[1].retryAt = now + RetryDelay(c.errors)]

\* tap(values => this.authSession$.next(values)), as seen by the renewal
\* subscription: the renewal is scheduled and the pipeline stays subscribed
MonoSuccess(s, request) ==
    ScheduleRenewal(
        [s EXCEPT !.calls[1].doneAt = now,
                  !.calls[1].result =
                      [kind |-> "session", payload |-> AuthResponseOf(request)]],
        "session")

MonoLoginResponse(status) ==
    /\ calls[1].login # 0
    /\ SvcBudget
    /\ LET s0 == [Svc EXCEPT !.calls[1].login = 0]
           s == IF status # 200 THEN MonoSourceError(s0, ErrorOfStatus(status))
                ELSE IssueTotp(s0, 1, calls[1].login)
       IN  SvcCommit(s) /\ SvcNote("loginResponse", s, NoCreds, FALSE, 1, status)
    /\ svcEvents' = svcEvents + 1
    /\ UNCHANGED <<cfgTimeout, svcLimit, onSetCredentials, svcAuthSession, now, rtVars>>

\* ... and by the socket subscribers of authSession$, which come after the
\* renewal subscription: combineLatest(isSocketOpen$, authSession$) emits, and an
\* open socket is handed the handshake frame of the new session
MonoSocketAuth(request) ==
    SocketAuthTrigger(Cur, socket, AuthResponseOf(request).json.pushSubscriptionId)

MonoTotpResponse(status) ==
    /\ calls[1].totp # 0
    /\ SvcBudget
    /\ LET s0 == [Svc EXCEPT !.calls[1].totp = 0]
           s == IF status # 200 THEN MonoSourceError(s0, ErrorOfStatus(status))
                ELSE MonoSuccess(s0, calls[1].totp)
       IN  SvcCommit(s) /\ SvcNote("totpResponse", s, NoCreds, FALSE, 1, status)
    /\ svcAuthSession' = IF status = 200 THEN "session" ELSE svcAuthSession
    /\ IF status = 200
       THEN /\ authSession' = AuthResponseOf(calls[1].totp).json.pushSubscriptionId
            /\ LET rt == MonoSocketAuth(calls[1].totp)
               IN  Commit(rt) /\ Note("session", rt, NullSub, <<>>)
       ELSE UNCHANGED <<authSession, socketMessageCount, socketClientId, isSocketAuth,
                        written, messages, last>>
    /\ svcEvents' = svcEvents + 1
    /\ UNCHANGED <<cfgTimeout, svcLimit, onSetCredentials, now, socket, addSubscription,
                   subscriptions, received, rtEvents>>

\* new Avanza(credentials, timeout) with arguments checkCredentials accepts: the
\* pipeline is subscribed (first login request), and the constructor ends with
\* authenticate$.next() (second login request, the first is dropped);
\* onSetCredentials holds the value of the BehaviorSubject credentials$, and
\* authSession$ is a BehaviorSubject that starts with null
MonoInit ==
    /\ RtConstructed(Null)
    /\ now = 0
    /\ cfgTimeout \in {MIN_INACTIVE_MINUTES, MAX_INACTIVE_MINUTES}
    /\ onSetCredentials = <<[username |-> "u", password |-> "p", totpSecret |-> "s1"]>>
    /\ LET s0 == [calls |-> [p \in 1..MaxCalls |->
                               IF p = 1 THEN [IdleCall EXCEPT !.status = "active"]
                               ELSE IdleCall],
                  requests |-> <<>>, unhandled |-> <<>>, credentialsSub |-> FALSE,
                  renewals |-> <<>>]
           s == AuthenticateNext(Subscribe(s0, 1, onSetCredentials), {})
       IN  /\ calls = s.calls
           /\ requests = s.requests
           /\ unhandled = s.unhandled
           /\ credentialsSub = s.credentialsSub
           /\ renewals = s.renewals
    /\ svcAuthSession = Null
    /\ svcEvents = 0
    /\ svcLimit = MaxMonoEvents
    /\ svcLast = [op |-> "new", credentials |-> NoCreds, threw |-> FALSE,
                  call |-> 0, status |-> NoStatusCode,
                  busy |-> FALSE, issued |-> <<>>, reported |-> <<>>,
                  resolved |-> {}, renewalsAfter |-> <<>>]

MonoNext ==
    \/ \E status \in StatusValues : MonoLoginResponse(status)
    \/ \E status \in StatusValues : MonoTotpResponse(status)
    \/ RetryTimer(1)
    \/ RenewalTimer
    \/ TickToTimer
    \/ OnSocketOpen
    \/ OnSocketClose

\* new Avanza(), then setCredentials calls around one authenticate() call
CredInit ==
    /\ RtFresh
    /\ SvcConstructed(MAX_INACTIVE_MINUTES)
    /\ svcLimit = MaxCredEvents

CredNext ==
    \/ \E credentials \in CredentialValues : SetCredentials(credentials)
    \/ AuthenticateOnce
    \/ \E p \in 1..MaxCalls, status \in StatusValues : LoginResponse(p, status)
    \/ \E p \in 1..MaxCalls, status \in StatusValues : TotpResponse(p, status)
    \/ \E p \in 1..MaxCalls : RetryTimer(p)
    \/ TickToTimer

RetryNext ==
    \/ AuthenticateOnce
    \/ \E p \in 1..MaxCalls, status \in StatusValues : LoginResponse(p, status)
    \/ \E p \in 1..MaxCalls, status \in StatusValues : TotpResponse(p, status)
    \/ \E p \in 1..MaxCalls : RetryTimer(p)
    \/ TickToTimer

SvcNext ==
    \/ \E credentials \in CredentialValues : SetCredentials(credentials)
    \/ Authenticate
    \/ \E p \in 1..MaxCalls, status \in StatusValues : LoginResponse(p, status)
    \/ \E p \in 1..MaxCalls, status \in StatusValues : TotpResponse(p, status)
    \/ \E p \in 1..MaxCalls : RetryTimer(p)
    \/ \E value \in AuthSessionValues : AuthSessionNext(value)
    \/ RenewalTimer
    \/ Tick
    \/ TickToTimer

\* the realtime service alone, and the authentication service alone
SpecRT == RtInit /\ [][RtNext]_vars
SpecService == SvcInit /\ [][SvcNext]_vars
SpecRetry == RetryInit /\ [][RetryNext]_vars
SpecCredentials == CredInit /\ [][CredNext]_vars
SpecMono == MonoInit /\ [][MonoNext]_vars

(***************************************************************************)
(* Properties of AvanzaRealTime.                                           *)
(***************************************************************************)
IsSubscribe(f) == f.channel = "/meta/subscribe"

\* the subscription paths of the subscribe frames of a sequence of frames, in order
SubscribePaths(frames) ==
    LET subs == SelectSeq(frames, IsSubscribe)
    IN  [i \in 1..Len(subs) |-> subs[i].subscription]

\* the last event made the connection authenticated
BecameAuthenticated == last.op = "message" /\ ~last.wasAuth /\ isSocketAuth

\* C3: the ids of the frames written to the socket are 1, 2, 3, ... in write
\* order, whatever the mix of handshake, connect and subscribe frames.
C3_OutboundIdsSequential ==
    \A i \in 1..Len(written) : written[i].id = i

\* C4: when the connection becomes authenticated, the subscribe frames of every
\* request added so far are written, not only those of the latest request.
C4_ReplayEveryRequest ==
    BecameAuthenticated =>
        \A k \in 1..Len(subscriptions) :
            subscriptions[k] # NullSub =>
                \A f \in Range(SubscribeFrames(subscriptions[k], 0, Null)) :
                    \E g \in Range(last.out) :
                        IsSubscribe(g) /\ g.subscription = f.subscription

\* "/" + channel + "/" + id for every id of a request, in the order of the ids
PerIdPaths(sub) ==
    [i \in 1..Len(sub.ids) |-> "/" \o sub.channel \o "/" \o sub.ids[i]]

\* the elements of `run` stand one after the other, in order, in `seq`
IsRunOf(run, seq) ==
    \E k \in 0..(Len(seq) - Len(run)) : SubSeq(seq, k + 1, k + Len(run)) = run

\* C5: for a channel that is not account-scoped, no subscribe frame is written
\* while the connection is not authenticated, and the event that makes it
\* authenticated writes, for every request added before it, one subscribe frame
\* per id, in the order of the ids, with subscription "/" + channel + "/" + id.
C5_DeferredPerIdSubscribe ==
    /\ ~isSocketAuth => SubscribePaths(written) = <<>>
    /\ BecameAuthenticated =>
          \A k \in 1..Len(subscriptions) :
              (subscriptions[k] # NullSub
                  /\ subscriptions[k].channel \notin {"orders", "deals", "positions"})
                => IsRunOf(PerIdPaths(subscriptions[k]), SubscribePaths(last.out))

\* the ids written one after the other with nothing in between
RECURSIVE Concatenated(_)
Concatenated(ids) == IF ids = <<>> THEN "" ELSE Head(ids) \o Concatenated(Tail(ids))

\* C6 (as claimed): an addSubscription for an account-scoped channel made after
\* authentication writes exactly one subscribe frame whose subscription is
\* "/" + channel followed by the ids concatenated ("/orders56").
C6_AccountPathConcatenated ==
    (last.op = "add" /\ last.wasAuth
            /\ last.sub.channel \in {"orders", "deals", "positions"}) =>
        SubscribePaths(last.out) =
            <<"/" \o last.sub.channel \o Concatenated(last.sub.ids)>>

\* C6 (amended): an addSubscription for an account-scoped channel made after
\* authentication writes exactly one frame, a subscribe frame, whose
\* subscription is "/" + channel followed by the ids separated by commas
\* ("/orders5,6").
C6_AccountPathCommaJoined ==
    (last.op = "add" /\ last.wasAuth
            /\ last.sub.channel \in {"orders", "deals", "positions"}) =>
        /\ Len(last.out) = 1
        /\ IsSubscribe(last.out[1])
        /\ last.out[1].subscription =
              "/" \o last.sub.channel \o Join(last.sub.ids, ",")

C6_Witness ==
    /\ last.op = "add" /\ last.wasAuth
    /\ last.sub = [channel |-> "orders", ids |-> <<"5", "6">>]
    /\ SubscribePaths(last.out) = <<"/orders5,6">>

\* the last event sent a subscription request: an addSubscription on an
\* authenticated connection, or the event that authenticated the connection
\* while a request was pending
SentRequest ==
    \/ last.op = "add" /\ last.wasAuth
    \/ BecameAuthenticated /\ addSubscription # NullSub

\* C7: a request for an account-scoped channel is sent as one subscribe frame
\* (never one per id) whose subscription is "/" + channel directly followed by
\* the ids joined with commas, with no "/" between the channel and the ids.
C7_AccountRequestOneFrame ==
    (SentRequest /\ addSubscription.channel \in {"orders", "deals", "positions"}) =>
        SubscribePaths(last.out) =
            <<"/" \o addSubscription.channel \o Join(addSubscription.ids, ",")>>

C7_Witness ==
    /\ BecameAuthenticated
    /\ addSubscription = [channel |-> "orders", ids |-> <<"5", "6">>]
    /\ Len(SubscribePaths(last.out)) = 1

\* the clientId stored before the i-th frame of the last inbound payload
ClientIdBefore(i) == IF i = 1 THEN last.clientId0 ELSE last.log[i - 1].clientId

\* C8: a handshake response is answered iff it has successful = true: then its
\* clientId is stored and the next frame written is a connect frame with that
\* clientId; otherwise nothing is written (no connect, no new handshake) and
\* the stored clientId stays as it was.
C8_ConnectIffHandshakeSuccessful ==
    \A i \in 1..Len(last.log) :
        LET e == last.log[i] IN
        e.msg.channel = "/meta/handshake" =>
            IF e.msg.successful
            THEN /\ Len(e.out) = 1
                 /\ e.out[1].channel = "/meta/connect"
                 /\ e.out[1].clientId = e.msg.clientId
                 /\ e.clientId = e.msg.clientId
            ELSE /\ e.out = <<>>
                 /\ e.clientId = ClientIdBefore(i)

C8_Witness ==
    /\ last.op = "message"
    /\ \E i \in 1..Len(last.log) :
          /\ last.log[i].msg = HandshakeResponse(TRUE, "C1")
          /\ socketClientId = "C1"
          /\ last.log[i].out # <<>>
          /\ last.log[i].out[1].clientId = "C1"
    /\ \E f \in Range(written) : f.channel = "/meta/handshake"

(***************************************************************************)
(* Properties of Avanza (SpecService).                                     *)
(***************************************************************************)
ValidNames(credentials) == credentials.username # "" /\ credentials.password # ""

\* C1: an authenticate() invocation or a renewal that arrives while a login
\* sequence has not completed issues no further login or second-factor request.
C1_SingleLoginInFlight ==
    (svcLast.op \in {"authenticate", "renewalTimer"} /\ svcLast.busy)
        => svcLast.issued = <<>>

\* C2: every successful authentication schedules exactly one renewal, due
\* (authenticationTimeout - 1) minutes after it.
C2_RenewalScheduled ==
    svcLast.resolved # {}
        => /\ svcLast.renewalsAfter # <<>>
           /\ svcLast.renewalsAfter[Len(svcLast.renewalsAfter)] = now + RenewalDelay

\* C9: with a non-empty username and password, supplying credentials fails
\* exactly when the configured authentication timeout is outside [30, 1440].
C9_TimeoutValidated ==
    (svcLast.op = "setCredentials" /\ ValidNames(svcLast.credentials))
        => ((svcLast.threw \/ svcLast.reported # <<>>)
                <=> ~(cfgTimeout >= MIN_INACTIVE_MINUTES
                      /\ cfgTimeout <= MAX_INACTIVE_MINUTES))

\* C10: supplying credentials with an empty username or an empty password
\* throws at the call that supplies them, and no login request carries an
\* empty username or an empty password.
C10_InvalidCredentialsThrow ==
    /\ (svcLast.op = "setCredentials" /\ ~ValidNames(svcLast.credentials))
          => svcLast.threw
    /\ \A i \in 1..Len(requests) :
          requests[i].kind = "login"
            => requests[i].username # "" /\ requests[i].password # ""

IsResponse == svcLast.op \in {"loginResponse", "totpResponse"}

\* C11: when the login call or the second-factor call answers 401, the promise
\* of authenticate() rejects at once: no retry timer is started, the response
\* issues no request, and no request is ever issued for a rejected call.
C11_UnauthorizedRejectsAtOnce ==
    /\ (IsResponse /\ svcLast.status = 401)
          => /\ calls[svcLast.call].status = "rejected"
             /\ calls[svcLast.call].doneAt = now
             /\ calls[svcLast.call].retryAt = -1
             /\ calls[svcLast.call].result.payload.json.statusCode = 401
             /\ svcLast.issued = <<>>
    /\ \A i \in 1..Len(svcLast.issued) :
          calls[svcLast.issued[i].call].status = "active"
    /\ \A p \in 1..MaxCalls :
          calls[p].status = "rejected"
            => /\ ~calls[p].sourceOn /\ calls[p].retryAt = -1
               /\ calls[p].login = 0 /\ calls[p].totp = 0

C11_Witness ==
    /\ svcLast.op = "totpResponse" /\ svcLast.status = 401
    /\ calls[svcLast.call].status = "rejected"
    /\ Cardinality({i \in 1..Len(requests) : requests[i].kind = "totp"}) = 1

(***************************************************************************)
(* Properties of the retry policy (SpecRetry).                             *)
(***************************************************************************)
LoginTimes(p) ==
    LET idx == {i \in 1..Len(requests) : requests[i].call = p /\ requests[i].kind = "login"}
    IN  [k \in 1..Cardinality(idx) |->
            requests[CHOOSE i \in idx : Cardinality({j \in idx : j <= i}) = k].at]

\* C12: the attempt that follows the k-th failure of a call starts exactly
\* k x scalingDuration after that failure, and a pending retry is due then.
C12_RetryWaitsScale ==
    \A p \in 1..MaxCalls :
        /\ \A k \in 1..Len(calls[p].failures) :
              k < Len(calls[p].attempts)
                => calls[p].attempts[k + 1] = calls[p].failures[k] + k * ScalingDuration
        /\ calls[p].retryAt >= 0
              => /\ Len(calls[p].attempts) = Len(calls[p].failures)
                 /\ calls[p].retryAt = calls[p].failures[Len(calls[p].failures)]
                                          + Len(calls[p].failures) * ScalingDuration
        /\ now <= calls[p].retryAt \/ calls[p].retryAt = -1

\* the login call failed twice with a retryable status and then succeeded
C12_Witness ==
    /\ calls[1].status = "resolved"
    /\ calls[1].errors = 2
    /\ LoginTimes(1) = <<0, 1 * ScalingDuration, 1 * ScalingDuration + 2 * ScalingDuration>>

\* C13: on the k-th failure of a call the policy rejects at once, with that
\* failure as payload, if its status is 400 or 401 or k > maxRetryAttempts, and
\* otherwise schedules a retry; so a call is attempted at most
\* maxRetryAttempts + 1 times.
C13_RetryPolicyDecision ==
    /\ (IsResponse /\ svcLast.status # 200)
          => LET c == calls[svcLast.call]
                 k == Len(c.failures)
             IN  IF svcLast.status \in {400, 401} \/ k > MaxRetryAttempts
                 THEN /\ c.status = "rejected" /\ c.doneAt = now /\ c.retryAt = -1
                      /\ c.result.payload.json.statusCode = svcLast.status
                      /\ svcLast.issued = <<>>
                 ELSE /\ c.status = "active"
                      /\ c.retryAt = now + k * ScalingDuration
    /\ \A p \in 1..MaxCalls :
          /\ Len(calls[p].attempts) <= MaxRetryAttempts + 1
          /\ Len(calls[p].failures) <= MaxRetryAttempts + 1

\* every attempt failed with a retryable status
C13_Witness ==
    /\ calls[1].status = "rejected"
    /\ Len(calls[1].failures) = MaxRetryAttempts + 1
    /\ Len(calls[1].attempts) = MaxRetryAttempts + 1
    /\ calls[1].result.payload.json.statusCode = 500
    /\ Len(LoginTimes(1)) = MaxRetryAttempts + 1

(***************************************************************************)
(* Properties of authenticate() (SpecService).                             *)
(***************************************************************************)
\* the latest second-factor request of call p
LastTotp(p) ==
    LET idx == {i \in 1..Len(requests) : requests[i].call = p /\ requests[i].kind = "totp"}
    IN  CHOOSE i \in idx : \A j \in idx : j <= i

\* C14: when the second-factor call answers 200 (after a login that answered
\* 200) the promise resolves, once, with the authenticationSession and
\* pushSubscriptionId of that response body and the token of its header.
C14_SessionComposed ==
    /\ (svcLast.op = "totpResponse" /\ svcLast.status = 200)
          => LET c == calls[svcLast.call]
                 r == LastTotp(svcLast.call)
             IN  /\ c.status = "resolved" /\ c.doneAt = now
                 /\ svcLast.resolved = {svcLast.call}
                 /\ requests[requests[r].transactionId].kind = "login"
                 /\ c.result.kind = "session"
                 /\ c.result.payload =
                        [securityToken |-> FieldOf("x-securitytoken", r),
                         authenticationSession |-> FieldOf("authenticationSession", r),
                         pushSubscriptionId |-> FieldOf("pushSubscriptionId", r)]
    /\ \A p \in 1..MaxCalls :
          calls[p].status = "resolved"
            => /\ ~calls[p].sourceOn /\ calls[p].retryAt = -1
               /\ calls[p].login = 0 /\ calls[p].totp = 0
    /\ \A p \in svcLast.resolved : svcLast.op = "totpResponse" /\ p = svcLast.call

C14_Witness ==
    /\ svcLast.op = "totpResponse" /\ svcLast.status = 200
    /\ calls[svcLast.call].status = "resolved"
    /\ calls[svcLast.call].errors = 0

(***************************************************************************)
(* Further properties of AvanzaRealTime (SpecRT).                          *)
(***************************************************************************)
\* C15: after a socket close event the stored clientId is cleared and the
\* connection is no longer marked authenticated.
C15_CloseResets ==
    socket = "closed" => (socketClientId = Null /\ ~isSocketAuth)

\* C16: a session supplied after the handshake frame of the current socket open
\* has been written causes no outbound frame.
C16_SessionKeepsSocket ==
    (last.op = "session" /\ last.sinceOpen > Handshakes(last.out))
        => last.out = <<>>

IsMeta(m) == m.channel \in {"/meta/handshake", "/meta/connect"}

\* C17: messages$ holds exactly the inbound frames that are neither handshake nor
\* connect responses, unchanged, once each and in arrival order.
C17_MessagesForwarded ==
    messages = SelectSeq(received, LAMBDA m : ~IsMeta(m))

C17_Witness ==
    /\ last.op = "message" /\ Len(last.log) = 2
    /\ ~isSocketAuth
    /\ Len(messages) >= 2
    /\ \E i \in 1..Len(received) : IsMeta(received[i])
    /\ ~IsMeta(last.log[1].msg) /\ ~IsMeta(last.log[2].msg)

\* the subscription paths of one request
PathsOf(sub) ==
    IF sub.channel \in {"orders", "deals", "positions"}
    THEN <<"/" \o sub.channel \o Join(sub.ids, ",")>>
    ELSE [i \in 1..Len(sub.ids) |-> "/" \o sub.channel \o "/" \o sub.ids[i]]

\* C18: addSubscription on an authenticated connection writes the subscribe
\* frames of the new request and nothing else.
C18_AddSendsNewOnly ==
    (last.op = "add" /\ last.wasAuth)
        => /\ \A i \in 1..Len(last.out) : IsSubscribe(last.out[i])
           /\ SubscribePaths(last.out) = PathsOf(last.sub)

C18_Witness ==
    /\ last.op = "add" /\ last.wasAuth
    /\ last.out # <<>>
    /\ \E i \in 1..(Len(subscriptions) - 1) :
          /\ subscriptions[i] # NullSub
          /\ subscriptions[i].ids # <<>>
          /\ subscriptions[i] # last.sub

\* the connection was authenticated before the i-th frame of the last payload
AuthBefore(i) ==
    last.wasAuth \/ \E j \in 1..(i - 1) : last.log[j].msg.channel = "/meta/connect"

\* C19: a /meta/connect response on a connection that is already authenticated
\* writes no subscribe frame; only the response that makes the connection
\* authenticated does.
C19_ConnectReplaysOnce ==
    last.op = "message"
        => \A i \in 1..Len(last.log) :
              SubscribePaths(last.log[i].out) # <<>>
                  => (last.log[i].msg.channel = "/meta/connect" /\ ~AuthBefore(i))

C19_Witness ==
    /\ last.op = "message" /\ last.wasAuth
    /\ addSubscription # NullSub /\ addSubscription.ids # <<>>
    /\ \E i \in 1..Len(last.log) :
          /\ last.log[i].msg.channel = "/meta/connect"
          /\ last.log[i].out # <<>>
    /\ SubscribePaths(written) # <<>>

CarriesClientId(f) == f.channel \in {"/meta/connect", "/meta/subscribe"}

\* C20: once a handshake response has assigned a clientId, every connect and
\* subscribe frame written carries the clientId of the most recent successful
\* handshake response, also within one inbound payload.
C20_FramesCarryClientId ==
    /\ last.op = "message"
          => \A i \in 1..Len(last.log) :
                last.log[i].clientId # Null
                  => \A k \in 1..Len(last.log[i].out) :
                        CarriesClientId(last.log[i].out[k])
                          => last.log[i].out[k].clientId = last.log[i].clientId
    /\ (last.op = "add" /\ socketClientId # Null)
          => \A k \in 1..Len(last.out) : last.out[k].clientId = socketClientId

(***************************************************************************)
(* Properties of the login sequence.                                       *)
(***************************************************************************)
TotpRequests == {i \in 1..Len(requests) : requests[i].kind = "totp"}

\* every second-factor request carries the transactionId of a login request of
\* its own login sequence (no login request of the pipeline lies between the
\* two), and no transactionId is carried by two second-factor requests
TransactionIdsSingleUse ==
    \A i \in TotpRequests :
        LET t == requests[i].transactionId
        IN  /\ t \in 1..(i - 1)
            /\ requests[t].kind = "login"
            /\ requests[t].call = requests[i].call
            /\ \A k \in (t + 1)..(i - 1) :
                  ~(requests[k].kind = "login" /\ requests[k].call = requests[i].call)
            /\ \A j \in TotpRequests : requests[j].transactionId = t => j = i

\* a step that issues a second-factor request is the 200 answer to the login
\* request its pipeline was waiting for, issues nothing else, and the request
\* carries the transactionId of the login request just answered
TotpFollowsLoginAnswer ==
    \A i \in (Len(requests) + 1)..Len(requests') :
        requests'[i].kind = "totp"
          => /\ svcLast'.op = "loginResponse" /\ svcLast'.status = 200
             /\ svcLast'.call = requests'[i].call
             /\ calls[requests'[i].call].login # 0
             /\ requests'[i].transactionId = calls[requests'[i].call].login
             /\ Len(requests') = Len(requests) + 1

\* C21: within a login sequence the second-factor request is issued only by the
\* 200 answer to the login request of that sequence and carries the transactionId
\* of that answer; across retries and renewals no transactionId is carried by
\* two second-factor requests.
C21_TransactionIdSingleUse ==
    []TransactionIdsSingleUse /\ [][TotpFollowsLoginAnswer]_vars

\* a second-factor request issued by a renewal, in a pipeline that has also
\* retried: the login of the renewal was answered 200 after an earlier success
C21_Witness ==
    /\ Cardinality(TotpRequests) >= 2
    /\ calls[1].errors >= 1
    /\ calls[1].doneAt >= 0
    /\ svcLast.op = "loginResponse" /\ svcLast.status = 200
    /\ requests[Len(requests)].kind = "totp"
    /\ requests[Len(requests)].at > calls[1].doneAt

\* the requests of call p issued before the last step
EarlierRequests(p) ==
    {i \in 1..(Len(requests) - Len(svcLast.issued)) : requests[i].call = p}

\* the last step retried call p after its second-factor request had failed
RetriedAfterTotpFailure(p) ==
    /\ svcLast.op = "retryTimer" /\ svcLast.call = p
    /\ EarlierRequests(p) # {}
    /\ requests[CHOOSE i \in EarlierRequests(p) :
                    \A j \in EarlierRequests(p) : j <= i].kind = "totp"

\* C22: the retry that follows a failed second-factor request issues no
\* credential-login request.
C22_RetryKeepsLogin ==
    \A p \in 1..MaxCalls :
        RetriedAfterTotpFailure(p)
            => \A k \in 1..Len(svcLast.issued) : svcLast.issued[k].kind # "login"

\* C23: the code of every second-factor request is the code of the moment the
\* request is made, which is the moment the login response arrived.
C23_TotpCodeFresh ==
    \A i \in TotpRequests :
        requests[i].totpCode = Totp(requests[i].totpCode.secret, requests[i].at)

(***************************************************************************)
(* Properties of the credentials (SpecCredentials).                        *)
(***************************************************************************)
\* C24: authenticate() reads the credentials supplied last and no earlier ones:
\* it posts one login with them if they are valid, and nothing otherwise.
C24_LatestCredentialsOnly ==
    (svcLast.op = "authenticate" /\ onSetCredentials # <<>>)
        => LET latest == onSetCredentials[Len(onSetCredentials)]
           IN  IF ValidNames(latest)
               THEN /\ Len(svcLast.issued) = 1
                    /\ svcLast.issued[1].kind = "login"
                    /\ svcLast.issued[1].username = latest.username
                    /\ svcLast.issued[1].password = latest.password
                    /\ calls[svcLast.call].creds = latest
               ELSE svcLast.issued = <<>>

\* a rejected setCredentials, then a valid one, then authenticate()
C24_Witness ==
    /\ svcLast.op = "authenticate"
    /\ Len(onSetCredentials) = 2
    /\ ~ValidNames(onSetCredentials[1])
    /\ ValidNames(onSetCredentials[2])
    /\ Len(svcLast.issued) = 1

\* ... and the call then resolves
C24_Resolves ==
    /\ Len(onSetCredentials) = 2
    /\ ~ValidNames(onSetCredentials[1])
    /\ calls[1].status = "resolved"

(***************************************************************************)
(* Failure paths and the connection state.                                 *)
(***************************************************************************)
\* C25: no error reaches a subscriber that has no error handler.
C25_NoUnhandledError ==
    unhandled = <<>>

\* C26: once addSubscription has been called, the ledger holds the requests of
\* the calls and no other entry.
C26_LedgerHoldsRequests ==
    last.op = "add"
        => \A i \in 1..Len(subscriptions) : subscriptions[i] \in SubscriptionRequests

\* C27: no event hands a frame to the socket while the socket is closed.
C27_NoWriteWhileClosed ==
    socket = "closed" => last.out = <<>>

\* C28: a connection marked authenticated has a clientId stored.
C28_AuthHasClientId ==
    isSocketAuth => socketClientId # Null

(***************************************************************************)
(* Properties of the single-pipeline variant (SpecMono).                   *)
(***************************************************************************)
\* the failures of the pipeline since its last success
FailuresOfSequence ==
    {k \in 1..Len(calls[1].failures) : calls[1].failures[k] > calls[1].doneAt}

\* C29: the retry that follows the k-th failure of the current login sequence
\* (k counted from the last success) waits k x scalingDuration, and no sequence
\* is given up before its failure number maxRetryAttempts + 1.
C29_RetryBudgetPerSequence ==
    /\ calls[1].retryAt >= 0
          => calls[1].retryAt = calls[1].failures[Len(calls[1].failures)]
                                  + Cardinality(FailuresOfSequence) * ScalingDuration
    /\ (calls[1].status = "ended"
            /\ unhandled[Len(unhandled)].json.statusCode \notin MonoExcludedStatusCodes)
          => Cardinality(FailuresOfSequence) = MaxRetryAttempts + 1

====
